---- MODULE Spec2Model ----
(***************************************************************************)
(* A model of the P&C Severity CPI pipeline:                               *)
(*   src/src/01_fetch_bls.py   fetch_series, validate_bls_response         *)
(*   src/src/03_build_index.py validate_filename,                          *)
(*                             validate_path_within_directory,             *)
(*                             load_series_data, build_severity_index and  *)
(*                             the build run (__main__)                    *)
(* Each component has its own specification over the shared variables:     *)
(*   Spec      fetch_series (the retry loop, one step per attempt/sleep)   *)
(*   SpecName  validate_filename                                           *)
(*   SpecPath  validate_path_within_directory                              *)
(*   SpecLoad  load_series_data (one step per weight row)                  *)
(*   SpecIndex build_severity_index                                        *)
(*   SpecBuild the build run                                               *)
(* Numbers that the code holds as floats are exact rationals here.         *)
(***************************************************************************)
EXTENDS Integers, Sequences, FiniteSets, TLC

VARIABLES
    pc,          \* fetch_series: position in the retry loop
    attempt,     \* fetch_series: the loop variable `attempt`
    hist,        \* fetch_series: the outcome of every network call made so far
    sleeps,      \* fetch_series: number of time.sleep(RETRY_DELAY) calls made
    result,      \* fetch_series: the returned series (records in index order)
    npc,         \* validate_filename: position
    filename,    \* validate_filename: the argument
    accepted,    \* validate_filename: the return value
    ppc,         \* validate_path_within_directory: position
    filepath,    \* validate_path_within_directory: the argument filepath
    allowed_dir, \* validate_path_within_directory: the argument allowed_dir
    path_ok,     \* validate_path_within_directory: the return value
    lpc,         \* load_series_data: position
    rows,        \* load_series_data: the series_file column of weights_df
    files,       \* load_series_data: what data_dir holds under each name
    row,         \* load_series_data: index of the next row of weights_df
    dfs,         \* load_series_data: the names loaded so far (keys of dfs)
    ipc,         \* build_severity_index: position
    panel,       \* build_severity_index / build run: the panel (column -> date -> cell)
    weights,     \* build_severity_index / build run: the rows of weights_df
    severity_idx,\* build_severity_index: the returned series (date -> cell)
    total_weight,\* build_severity_index: the cumulative applied weight
    warned,      \* build_severity_index: whether the weight-sum warning was logged
    bpc,         \* build run: position
    loaded,      \* build run: the mapping load_series_data returned
    panel_indexed,\* build run: the normalized panel
    exit_code    \* build run: the process exit status

fetchVars == <<pc, attempt, hist, sleeps, result>>
nameVars  == <<npc, filename, accepted>>
pathVars  == <<ppc, filepath, allowed_dir, path_ok>>
loadVars  == <<lpc, rows, files, row, dfs>>
indexVars == <<ipc, panel, weights, severity_idx, total_weight, warned>>
buildVars == <<bpc, loaded, panel_indexed, exit_code>>
vars == <<fetchVars, nameVars, pathVars, loadVars, indexVars, buildVars>>

Absent == "<absent>"

(***************************************************************************)
(* Idle values of the components a specification does not exercise.        *)
(***************************************************************************)
FetchIdle ==
    /\ pc = "idle" /\ attempt = 0 /\ hist = <<>> /\ sleeps = 0 /\ result = <<>>
NameIdle ==
    /\ npc = "idle" /\ filename = <<>> /\ accepted = FALSE
PathIdle ==
    /\ ppc = "idle" /\ filepath = <<>> /\ allowed_dir = <<>> /\ path_ok = FALSE
LoadIdle ==
    /\ lpc = "idle" /\ rows = <<>> /\ files = <<>> /\ row = 0 /\ dfs = {}
IndexIdle ==
    /\ ipc = "idle" /\ panel = <<>> /\ weights = <<>> /\ severity_idx = <<>>
    /\ total_weight = <<>> /\ warned = FALSE
BuildIdle ==
    /\ bpc = "idle" /\ loaded = <<>> /\ panel_indexed = <<>> /\ exit_code = 0

(***************************************************************************)
(*                    01_fetch_bls.py : fetch_series                       *)
(***************************************************************************)
MAX_RETRIES == 3

\* Bound: the longest data array of a response.
MaxData == 3

\* The period field of a datum, as characters: "M01", "M02" (January,
\* February) and "M13" (the annual average, which yields month 13).
Periods == { <<"M", "0", "1">>, <<"M", "0", "2">>, <<"M", "1", "3">> }
Years == { "2010" }
\* The value field of a datum: the two sentinels, a numeral, a malformed
\* numeral, or no "value" key at all.
ValueStrs == { "-", "", "100", "n/a" }
Items == [year : Years, period : Periods, value : ValueStrs \cup {Absent}]

RECURSIVE SeqsUpTo(_, _)
SeqsUpTo(S, n) ==
    IF n = 0 THEN { <<>> }
    ELSE LET shorter == SeqsUpTo(S, n - 1)
         IN  shorter \cup { Append(s, x) : s \in { t \in shorter : Len(t) = n - 1 }, x \in S }

\* A parsed JSON payload.  top: whether it is an object; status: the status
\* field; results/series/entry/data: the kind of value found at
\* ["Results"], ["Results"]["series"], ["Results"]["series"][0] and
\* ...["data"] ("null" stands for any value that is not a container; an
\* Absent entry is an empty series array); items: the data array.
ValidPayload(items) ==
    [top |-> "object", status |-> "REQUEST_SUCCEEDED", results |-> "object",
     series |-> "list", entry |-> "object", data |-> "list", items |-> items]
NoPayload == [ValidPayload(<<>>) EXCEPT !.top = Absent]
Payloads ==
      { [ValidPayload(<<>>) EXCEPT !.top = "array"] }
 \cup { [ValidPayload(<<>>) EXCEPT !.status = s] : s \in {Absent, "REQUEST_NOT_PROCESSED"} }
 \cup { [ValidPayload(<<>>) EXCEPT !.results = k] : k \in {Absent, "null"} }
 \cup { [ValidPayload(<<>>) EXCEPT !.series = k] : k \in {Absent, "null"} }
 \cup { [ValidPayload(<<>>) EXCEPT !.entry = k] : k \in {Absent, "null"} }
 \cup { [ValidPayload(<<>>) EXCEPT !.data = k] : k \in {Absent, "null"} }
 \cup { ValidPayload(items) : items \in SeqsUpTo(Items, MaxData) }

\* validate_bls_response: "valid" (True), "invalid" (False), or the
\* exception an `in` / len() on a non-container raises.
validate_bls_response(json_data) ==
    IF json_data.top # "object" THEN "invalid"
    ELSE IF json_data.status = Absent THEN "invalid"
    ELSE IF json_data.status # "REQUEST_SUCCEEDED" THEN "invalid"
    ELSE IF json_data.results = Absent THEN "invalid"
    ELSE IF json_data.results = "null" THEN "TypeError"   \* "series" not in <non-container>
    ELSE IF json_data.series = Absent THEN "invalid"
    ELSE IF json_data.series = "null" THEN "TypeError"    \* len(<non-container>)
    ELSE IF json_data.entry = Absent THEN "invalid"       \* the series array is empty
    ELSE IF json_data.entry = "null" THEN "TypeError"     \* "data" not in <non-container>
    ELSE IF json_data.data = Absent THEN "invalid"
    ELSE "valid"

\* value_str == "-" or value_str == ""
IsSentinelOnlyDash(value_str) == value_str = "-"
IsSentinel(value_str) == value_str = "-" \/ value_str = ""

\* float(value_str): the number, or ValueError.
FloatOk(value_str) == value_str = "100"
Float(value_str) == 100

\* f"{item['year']}-{item['period'][1:]}-01" then pd.to_datetime: the month
\* digits are the period without its first character.
MonthDigits(period) == Tail(period)
MonthOk(digits) == digits \in { <<"0", "1">>, <<"0", "2">> }
MonthNumber(digits) == IF digits = <<"0", "1">> THEN 1 ELSE 2
YearNumber(year) == 2010
\* The timestamp of a parsed date, in months.
ToDatetime(year, digits) == YearNumber(year) * 12 + MonthNumber(digits)

\* The loop over the data array (lines 118-129): the records built, in
\* order, or the exception the first bad datum raises.
RECURSIVE BuildRecords(_)
BuildRecords(items) ==
    IF items = <<>> THEN [exc |-> "none", records |-> <<>>]
    ELSE LET item == Head(items)
             rest == BuildRecords(Tail(items))
         IN  IF item.value = Absent THEN [exc |-> "KeyError", records |-> <<>>]
             ELSE IF IsSentinel(item.value) THEN rest
             ELSE IF ~FloatOk(item.value) THEN [exc |-> "ValueError", records |-> <<>>]
             ELSE IF rest.exc # "none" THEN rest
             ELSE [exc |-> "none",
                   records |-> <<[year |-> item.year, month |-> MonthDigits(item.period),
                                  value |-> Float(item.value)]>> \o rest.records]

\* The ways to put row x into the date-sorted rows s and keep them sorted.
Inserts(s, x) ==
    { SubSeq(s, 1, k) \o <<x>> \o SubSeq(s, k + 1, Len(s)) :
        k \in { j \in 0..Len(s) : /\ (j = 0 \/ s[j].date <= x.date)
                                  /\ (j = Len(s) \/ x.date <= s[j + 1].date) } }

\* df.sort_values("date"): some ordering of the rows ascending by date (the
\* default sort is not stable, so equal dates may come in either order).
RECURSIVE SortValues(_)
SortValues(df) ==
    IF df = <<>> THEN { <<>> }
    ELSE UNION { Inserts(s, Head(df)) : s \in SortValues(Tail(df)) }

\* Lines 131-135: the frame of the records, its date column parsed, sorted.
\* An empty frame has no "date" column (KeyError); an impossible date is a
\* ValueError.
FrameOf(records) ==
    IF records = <<>> THEN [exc |-> "KeyError", frames |-> {}]
    ELSE IF \E i \in 1..Len(records) : ~MonthOk(records[i].month)
         THEN [exc |-> "ValueError", frames |-> {}]
    ELSE [exc |-> "none",
          frames |-> SortValues([i \in 1..Len(records) |->
                        [date |-> ToDatetime(records[i].year, records[i].month),
                         value |-> records[i].value]])]

\* The body of the try block for a response that arrived: the exception it
\* ends in ("none": it returns) and the series it may return.
TryBody(json_data) ==
    LET v == validate_bls_response(json_data)
    IN  IF v = "invalid" THEN [exc |-> "none", series |-> { <<>> }]
        ELSE IF v # "valid" THEN [exc |-> v, series |-> {}]
        ELSE IF json_data.data = "null" THEN [exc |-> "TypeError", series |-> {}]
        ELSE LET b == BuildRecords(json_data.items)
             IN  IF b.exc # "none" THEN [exc |-> b.exc, series |-> {}]
                 ELSE LET f == FrameOf(b.records)
                      IN  [exc |-> f.exc, series |-> f.frames]

\* What requests.post / raise_for_status / resp.json can raise.
\* ChunkedEncodingError and TooManyRedirects are RequestExceptions that are
\* neither Timeout, ConnectionError nor HTTPError; a JSON decoding error is
\* a ValueError.
RequestErrors ==
    { "Timeout", "ConnectionError", "HTTPError", "ValueError",
      "ChunkedEncodingError", "TooManyRedirects" }
Outcomes ==
      { [exc |-> e, payload |-> NoPayload] : e \in RequestErrors }
 \cup { [exc |-> "none", payload |-> p] : p \in Payloads }

\* The exception an attempt ends in, "none" when the try block returns.
ExcOf(o) == IF o.exc # "none" THEN o.exc ELSE TryBody(o.payload).exc

\* The except clauses of lines 137-146: "retry" falls through to the end of
\* the loop body, "empty" returns an empty series, "propagate" matches none.
RetriesHTTPError(exc) ==
    IF exc \in {"Timeout", "ConnectionError", "HTTPError"} THEN "retry"
    ELSE IF exc \in {"KeyError", "ValueError", "TypeError"} THEN "empty"
    ELSE "propagate"
Handler(exc) ==
    IF exc \in {"Timeout", "ConnectionError"} THEN "retry"
    ELSE IF exc = "HTTPError" THEN "empty"
    ELSE IF exc \in {"KeyError", "ValueError", "TypeError"} THEN "empty"
    ELSE "propagate"

\* Line 148: if attempt < MAX_RETRIES
SleepsAfterLast(a) == a <= MAX_RETRIES
ShouldSleep(a) == a < MAX_RETRIES

\* The for loop of line 108 moves on after `attempt`; past the last value it
\* falls to lines 152-153 and an empty series is returned.
NextIteration ==
    IF attempt < MAX_RETRIES
    THEN /\ attempt' = attempt + 1
         /\ pc' = "try"
         /\ result' = result
    ELSE /\ attempt' = attempt
         /\ pc' = "returned"
         /\ result' = <<>>

FetchInit ==
    /\ pc = "try" /\ attempt = 1 /\ hist = <<>> /\ sleeps = 0 /\ result = <<>>

FetchOthers == UNCHANGED <<nameVars, pathVars, loadVars, indexVars, buildVars>>

\* An attempt whose try block returns a series (lines 111-135, 116).
AttemptReturns ==
    /\ pc = "try"
    /\ \E o \in Outcomes :
          /\ ExcOf(o) = "none"
          /\ hist' = Append(hist, o)
          /\ \E s \in TryBody(o.payload).series : result' = s
    /\ pc' = "returned"
    /\ UNCHANGED <<attempt, sleeps>>
    /\ FetchOthers

\* An attempt that ends in an exception whose handler returns an empty
\* series (lines 141-146).
AttemptFails ==
    /\ pc = "try"
    /\ \E o \in Outcomes :
          /\ ExcOf(o) # "none"
          /\ Handler(ExcOf(o)) = "empty"
          /\ hist' = Append(hist, o)
    /\ result' = <<>>
    /\ pc' = "returned"
    /\ UNCHANGED <<attempt, sleeps>>
    /\ FetchOthers

\* An attempt that ends in an exception whose handler only logs (lines
\* 137-140): control reaches line 148.
AttemptTransient ==
    /\ pc = "try"
    /\ \E o \in Outcomes :
          /\ ExcOf(o) # "none"
          /\ Handler(ExcOf(o)) = "retry"
          /\ hist' = Append(hist, o)
    /\ IF ShouldSleep(attempt)
       THEN /\ pc' = "sleep"
            /\ UNCHANGED <<attempt, result>>
       ELSE NextIteration
    /\ UNCHANGED sleeps
    /\ FetchOthers

\* An attempt that ends in an exception no except clause matches.
AttemptEscapes ==
    /\ pc = "try"
    /\ \E o \in Outcomes :
          /\ ExcOf(o) # "none"
          /\ Handler(ExcOf(o)) = "propagate"
          /\ hist' = Append(hist, o)
    /\ pc' = "raised"
    /\ UNCHANGED <<attempt, sleeps, result>>
    /\ FetchOthers

\* time.sleep(RETRY_DELAY) (line 150), then the next iteration.
Sleep ==
    /\ pc = "sleep"
    /\ sleeps' = sleeps + 1
    /\ NextIteration
    /\ UNCHANGED hist
    /\ FetchOthers

FetchNext == AttemptReturns \/ AttemptFails \/ AttemptTransient \/ AttemptEscapes \/ Sleep

Init == FetchInit /\ NameIdle /\ PathIdle /\ LoadIdle /\ IndexIdle /\ BuildIdle
Next == FetchNext
Spec == Init /\ [][Next]_vars

(***************************************************************************)
(*                 03_build_index.py : validate_filename                   *)
(***************************************************************************)
\* Bound: the longest beginning of a candidate filename.
MaxHead == 2

\* Strings are sequences of characters.
DotCsv == <<".", "c", "s", "v">>
\* The characters a candidate name begins with, and the ways it ends.
HeadChars == { "a", "7", "_", "-", ".", "/", " ", "\n" }
Tails ==
    { <<>>, DotCsv, DotCsv \o <<"\n">>, DotCsv \o <<"x">>,
      <<"c", "s", "v">>, <<".", "c", "s">> }
Filenames == { h \o t : h \in SeqsUpTo(HeadChars, MaxHead), t \in Tails }

\* The character class [a-zA-Z0-9_-], over the characters in use.
InClass(c) == c \in { "a", "b", "c", "s", "v", "x", "7", "_", "-" }

\* `$` without re.MULTILINE: the end of the string, or just before a
\* newline that is the last character of the string.
AtDollar(s, pos) == pos = Len(s) \/ (pos = Len(s) - 1 /\ s[Len(s)] = "\n")

\* VALID_FILENAME_PATTERN.match(filename) for ^[a-zA-Z0-9_-]+\.csv$ : some
\* non-empty run of class characters from the start, then ".csv", then `$`.
PatternMatch(s) ==
    \E k \in 1..Len(s) :
        /\ \A i \in 1..k : InClass(s[i])
        /\ k + 4 <= Len(s)
        /\ SubSeq(s, k + 1, k + 4) = DotCsv
        /\ AtDollar(s, k + 4)

validate_filename(name) == PatternMatch(name)

NameInit == npc = "call" /\ filename \in Filenames /\ accepted = FALSE

ValidateFilename ==
    /\ npc = "call"
    /\ accepted' = validate_filename(filename)
    /\ npc' = "returned"
    /\ UNCHANGED filename
    /\ UNCHANGED <<fetchVars, pathVars, loadVars, indexVars, buildVars>>

InitName == FetchIdle /\ NameInit /\ PathIdle /\ LoadIdle /\ IndexIdle /\ BuildIdle
NextName == ValidateFilename
SpecName == InitName /\ [][NextName]_vars

(***************************************************************************)
(*          03_build_index.py : validate_path_within_directory             *)
(***************************************************************************)
\* Bound: the number of segments of a candidate path.
MaxDepth == 3

\* Paths are absolute: sequences of segments below the root.
SegRaw  == <<"r", "a", "w">>
SegRaw2 == <<"r", "a", "w", "2">>
SegFile == <<"a">> \o DotCsv
DotDot  == <<".", ".">>
Dot     == <<".">>
Segments == { SegRaw, SegRaw2, SegFile, DotDot, Dot }
AllowedDirs == { <<SegRaw>>, <<SegRaw, SegRaw>>, <<SegRaw2, DotDot, SegRaw>> }

\* Path.resolve(): "." is dropped, ".." removes the segment before it (the
\* root is its own parent).  No symbolic links are modelled.
RECURSIVE ResolveOnto(_, _)
ResolveOnto(stack, p) ==
    IF p = <<>> THEN stack
    ELSE IF Head(p) = Dot THEN ResolveOnto(stack, Tail(p))
    ELSE IF Head(p) = DotDot
         THEN ResolveOnto(IF stack = <<>> THEN stack ELSE SubSeq(stack, 1, Len(stack) - 1), Tail(p))
    ELSE ResolveOnto(Append(stack, Head(p)), Tail(p))
Resolve(p) == ResolveOnto(<<>>, p)

\* str(path): "/" for the root, else "/" before every segment.
RECURSIVE JoinSegments(_)
JoinSegments(p) == IF p = <<>> THEN <<>> ELSE <<"/">> \o Head(p) \o JoinSegments(Tail(p))
Str(p) == IF p = <<>> THEN <<"/">> ELSE JoinSegments(p)

\* a.startswith(b), character by character.
StartsWith(a, b) == Len(b) <= Len(a) /\ SubSeq(a, 1, Len(b)) = b

\* Lines 46-51.
validate_path_within_directory(fp, dir) ==
    StartsWith(Str(Resolve(fp)), Str(Resolve(dir)))

PathInit ==
    /\ ppc = "call"
    /\ filepath \in SeqsUpTo(Segments, MaxDepth)
    /\ allowed_dir \in AllowedDirs
    /\ path_ok = FALSE

PathOthers == UNCHANGED <<fetchVars, nameVars, loadVars, indexVars, buildVars>>

ValidatePath ==
    /\ ppc = "call"
    /\ path_ok' = validate_path_within_directory(filepath, allowed_dir)
    /\ ppc' = "returned"
    /\ UNCHANGED <<filepath, allowed_dir>>
    /\ PathOthers

\* resolve() raises OSError or ValueError: lines 52-54 return False.
ValidatePathError ==
    /\ ppc = "call"
    /\ path_ok' = FALSE
    /\ ppc' = "returned"
    /\ UNCHANGED <<filepath, allowed_dir>>
    /\ PathOthers

InitPath == FetchIdle /\ NameIdle /\ PathInit /\ LoadIdle /\ IndexIdle /\ BuildIdle
NextPath == ValidatePath \/ ValidatePathError
SpecPath == InitPath /\ [][NextPath]_vars

(***************************************************************************)
(*                 03_build_index.py : load_series_data                    *)
(***************************************************************************)
\* Bound: the number of rows of weights_df.
MaxRows == 3

NameA == <<"a">> \o DotCsv
NameB == <<"b">> \o DotCsv
NameTraversal == <<".", ".", "/">> \o NameA
RowNames == { NameA, NameB, NameTraversal }
\* data_dir, as a path.
DataDir == <<SegRaw>>

\* What pd.read_csv(filepath, parse_dates=["date"], index_col="date") and
\* df["value"] meet under a name.
FileKinds == { "ok", "absent", "empty", "no_date_column", "no_value_column", "malformed" }
\* The exception lines 86-87 raise for each kind of file ("none": loaded).
\* parse_dates / index_col naming a column the file lacks is a ValueError;
\* the missing value column is the KeyError of df["value"].
ReadError(kind) ==
    CASE kind = "ok" -> "none"
      [] kind = "absent" -> "FileNotFoundError"
      [] kind = "empty" -> "EmptyDataError"
      [] kind = "no_date_column" -> "ValueError"
      [] kind = "no_value_column" -> "KeyError"
      [] kind = "malformed" -> "ParserError"

\* The except clauses of lines 89-96.
LoadCatches(exc) ==
    exc \in { "FileNotFoundError", "EmptyDataError", "KeyError", "ParserError" }

KindOf(name) == IF name \in DOMAIN files THEN files[name] ELSE "absent"

\* Lines 73-83: the row is passed over before any file is read.
SkipsRow(name) ==
    \/ ~validate_filename(name)
    \/ name \in dfs
    \/ ~validate_path_within_directory(DataDir \o <<name>>, DataDir)

LoadInit ==
    /\ lpc = "loop"
    /\ rows \in SeqsUpTo(RowNames, MaxRows)
    /\ files \in [{NameA, NameB} -> FileKinds]
    /\ row = 1
    /\ dfs = {}

LoadOthers == UNCHANGED <<fetchVars, nameVars, pathVars, indexVars, buildVars>>

LoadRowSkipped ==
    /\ lpc = "loop" /\ row <= Len(rows)
    /\ SkipsRow(rows[row])
    /\ row' = row + 1
    /\ UNCHANGED <<lpc, rows, files, dfs>>
    /\ LoadOthers

LoadRowRead ==
    /\ lpc = "loop" /\ row <= Len(rows)
    /\ ~SkipsRow(rows[row])
    /\ ReadError(KindOf(rows[row])) = "none"
    /\ dfs' = dfs \cup {rows[row]}
    /\ row' = row + 1
    /\ UNCHANGED <<lpc, rows, files>>
    /\ LoadOthers

LoadRowCaught ==
    /\ lpc = "loop" /\ row <= Len(rows)
    /\ ~SkipsRow(rows[row])
    /\ ReadError(KindOf(rows[row])) # "none"
    /\ LoadCatches(ReadError(KindOf(rows[row])))
    /\ row' = row + 1
    /\ UNCHANGED <<lpc, rows, files, dfs>>
    /\ LoadOthers

LoadRowRaises ==
    /\ lpc = "loop" /\ row <= Len(rows)
    /\ ~SkipsRow(rows[row])
    /\ ReadError(KindOf(rows[row])) # "none"
    /\ ~LoadCatches(ReadError(KindOf(rows[row])))
    /\ lpc' = "raised"
    /\ UNCHANGED <<rows, files, row, dfs>>
    /\ LoadOthers

LoadReturn ==
    /\ lpc = "loop" /\ row > Len(rows)
    /\ lpc' = "returned"
    /\ UNCHANGED <<rows, files, row, dfs>>
    /\ LoadOthers

InitLoad == FetchIdle /\ NameIdle /\ PathIdle /\ LoadInit /\ IndexIdle /\ BuildIdle
NextLoad == LoadRowSkipped \/ LoadRowRead \/ LoadRowCaught \/ LoadRowRaises \/ LoadReturn
SpecLoad == InitLoad /\ [][NextLoad]_vars

(***************************************************************************)
(*               03_build_index.py : build_severity_index                  *)
(***************************************************************************)
\* Bound: the number of rows of weights_df given to build_severity_index.
MaxWeights == 2

\* A float is an exact rational n/d (d > 0, lowest terms) or NaN.
RECURSIVE GCD(_, _)
GCD(a, b) == IF b = 0 THEN a ELSE GCD(b, a % b)
Abs(x) == IF x < 0 THEN -x ELSE x
Rat(n, d) ==
    LET g == GCD(Abs(n), d)
    IN  [nan |-> FALSE, n |-> n \div g, d |-> d \div g]
NaN == [nan |-> TRUE, n |-> 0, d |-> 1]
Zero == Rat(0, 1)
One == Rat(1, 1)
Hundred == Rat(100, 1)
Add(a, b) == IF a.nan \/ b.nan THEN NaN ELSE Rat(a.n * b.d + b.n * a.d, a.d * b.d)
Sub(a, b) == IF a.nan \/ b.nan THEN NaN ELSE Rat(a.n * b.d - b.n * a.d, a.d * b.d)
Mul(a, b) == IF a.nan \/ b.nan THEN NaN ELSE Rat(a.n * b.n, a.d * b.d)
\* a / b for b # 0.
Div(a, b) ==
    IF a.nan \/ b.nan THEN NaN
    ELSE IF b.n < 0 THEN Rat(-(a.n * b.d), a.d * (-b.n)) ELSE Rat(a.n * b.d, a.d * b.n)
AbsR(a) == IF a.nan THEN NaN ELSE Rat(Abs(a.n), a.d)
\* a > b; a comparison with NaN is False.
Greater(a, b) == ~a.nan /\ ~b.nan /\ a.n * b.d > b.n * a.d

\* base_date = "2010-01-01" (line 167), as a month count.
BaseDate == 2010 * 12 + 1
\* The row index of the panel given to build_severity_index.
IndexDates == { BaseDate, BaseDate + 1 }
ColA == "All_Items.csv"
ColB == "Shelter.csv"
ColC == "Gasoline.csv"
\* The cells of a normalized panel.
PanelCells == { NaN, Hundred, Rat(110, 1) }
Panels == [{ColA, ColB} -> [IndexDates -> PanelCells]]
\* The weight column, and the rows of weights_df.
WeightValues == { Rat(-1, 2), Rat(49, 100), Rat(1, 2), Rat(51, 100), Rat(3, 2) }
WeightRows == [series_file : {ColA, ColB, ColC}, weight : WeightValues]

\* Line 126: abs(total_weight - 1.0) > 0.01
Tolerance == Rat(1, 100)
WarnsAtTolerance(total) == ~Greater(Tolerance, AbsR(Sub(total, One)))
Warns(total) == Greater(AbsR(Sub(total, One)), Tolerance)

\* Line 120: severity_idx += weight * panel[series_file], date by date.
AccumulateOverwrites(acc, weight, column) ==
    [d \in DOMAIN acc |-> Mul(weight, column[d])]
Accumulate(acc, weight, column) ==
    [d \in DOMAIN acc |-> Add(acc[d], Mul(weight, column[d]))]

\* Lines 115-124: the loop over the rows, from the state st it has reached.
RECURSIVE ApplyRows(_, _, _)
ApplyRows(st, pnl, w) ==
    IF w = <<>> THEN st
    ELSE LET r == Head(w)
         IN  IF r.series_file \in DOMAIN pnl
             THEN ApplyRows([idx |-> Accumulate(st.idx, r.weight, pnl[r.series_file]),
                             total |-> Add(st.total, r.weight)],
                            pnl, Tail(w))
             ELSE ApplyRows(st, pnl, Tail(w))

\* The row index of a panel (the union of its columns' dates).
IndexOf(pnl) == UNION { DOMAIN pnl[c] : c \in DOMAIN pnl }

\* build_severity_index(panel, weights_df): the series returned, the
\* cumulative weight and whether line 127 logged the warning.
build_severity_index(pnl, w) ==
    LET st == ApplyRows([idx |-> [d \in IndexOf(pnl) |-> Zero], total |-> Zero], pnl, w)
    IN  [idx |-> st.idx, total |-> st.total, warned |-> Warns(st.total)]

IndexInit ==
    /\ ipc = "call"
    /\ panel \in Panels
    /\ weights \in SeqsUpTo(WeightRows, MaxWeights)
    /\ severity_idx = <<>>
    /\ total_weight = Zero
    /\ warned = FALSE

BuildSeverityIndex ==
    /\ ipc = "call"
    /\ LET r == build_severity_index(panel, weights)
       IN  /\ severity_idx' = r.idx
           /\ total_weight' = r.total
           /\ warned' = r.warned
    /\ ipc' = "returned"
    /\ UNCHANGED <<panel, weights>>
    /\ UNCHANGED <<fetchVars, nameVars, pathVars, loadVars, buildVars>>

InitIndex == FetchIdle /\ NameIdle /\ PathIdle /\ LoadIdle /\ IndexInit /\ BuildIdle
NextIndex == BuildSeverityIndex
SpecIndex == InitIndex /\ [][NextIndex]_vars

(***************************************************************************)
(*                 03_build_index.py : the build run                       *)
(***************************************************************************)
\* Bound: the number of rows of the weights file of a build run.
MaxRunWeights == 2

\* The series load_series_data can return: observations at some of the
\* dates, each a positive index level.
RunDates == { BaseDate, BaseDate + 1 }
RawValues == { Rat(200, 1), Rat(220, 1) }
RawSeries == UNION { [ds -> RawValues] : ds \in SUBSET RunDates \ {{}} }
LoadedMaps == UNION { [cs -> RawSeries] : cs \in SUBSET {ColA, ColB} }
RunWeightRows == [series_file : {ColA, ColB, ColC}, weight : { Rat(1, 2), One }]

\* A frame whose missing observations are filled with zero.
DataFrameFillsZero(series) ==
    LET index == UNION { DOMAIN series[c] : c \in DOMAIN series }
    IN  [c \in DOMAIN series |->
            [d \in index |-> IF d \in DOMAIN series[c] THEN series[c][d] ELSE Zero]]

\* pd.DataFrame(dfs) (line 164): one column per series on the union of the
\* dates, NaN where a series has no observation.
DataFrame(series) ==
    LET index == UNION { DOMAIN series[c] : c \in DOMAIN series }
    IN  [c \in DOMAIN series |->
            [d \in index |-> IF d \in DOMAIN series[c] THEN series[c][d] ELSE NaN]]

\* panel.loc[base_date] raises KeyError when the date is not in the index.
HasBaseDate(pnl) == BaseDate \in IndexOf(pnl)
\* panel.div(base) * 100 (lines 169-170), column by column.
Normalize(pnl) ==
    [c \in DOMAIN pnl |->
        [d \in DOMAIN pnl[c] |-> Mul(Div(pnl[c][d], pnl[c][BaseDate]), Hundred)]]

RunInit ==
    /\ bpc = "loaded"
    /\ loaded \in LoadedMaps
    /\ weights \in SeqsUpTo(RunWeightRows, MaxRunWeights)
    /\ panel = <<>> /\ panel_indexed = <<>> /\ exit_code = 0
    /\ ipc = "idle" /\ severity_idx = <<>> /\ total_weight = Zero /\ warned = FALSE

RunOthers == UNCHANGED <<fetchVars, nameVars, pathVars, loadVars>>

\* Lines 157-159: nothing loaded.
RunNoData ==
    /\ bpc = "loaded"
    /\ DOMAIN loaded = {}
    /\ bpc' = "exited" /\ exit_code' = 1
    /\ UNCHANGED <<loaded, panel_indexed, indexVars>>
    /\ RunOthers

\* Line 164.
RunCombine ==
    /\ bpc = "loaded"
    /\ DOMAIN loaded # {}
    /\ panel' = DataFrame(loaded)
    /\ bpc' = "combined"
    /\ UNCHANGED <<loaded, panel_indexed, exit_code>>
    /\ UNCHANGED <<ipc, weights, severity_idx, total_weight, warned>>
    /\ RunOthers

\* Lines 168-171.
RunNormalize ==
    /\ bpc = "combined"
    /\ HasBaseDate(panel)
    /\ panel_indexed' = Normalize(panel)
    /\ bpc' = "normalized"
    /\ UNCHANGED <<loaded, exit_code, indexVars>>
    /\ RunOthers

\* Lines 172-174.
RunNoBaseDate ==
    /\ bpc = "combined"
    /\ ~HasBaseDate(panel)
    /\ bpc' = "exited" /\ exit_code' = 1
    /\ UNCHANGED <<loaded, panel_indexed, indexVars>>
    /\ RunOthers

\* Lines 177-188: the composite is computed and saved; the run ends.
RunBuild ==
    /\ bpc = "normalized"
    /\ LET r == build_severity_index(panel_indexed, weights)
       IN  /\ severity_idx' = r.idx
           /\ total_weight' = r.total
           /\ warned' = r.warned
    /\ bpc' = "saved"
    /\ UNCHANGED <<loaded, panel_indexed, exit_code, ipc, panel, weights>>
    /\ RunOthers

InitBuild == FetchIdle /\ NameIdle /\ PathIdle /\ LoadIdle /\ RunInit
NextBuild == RunNoData \/ RunCombine \/ RunNormalize \/ RunNoBaseDate \/ RunBuild
SpecBuild == InitBuild /\ [][NextBuild]_vars

(***************************************************************************)
(*                      Claims about fetch_series                          *)
(***************************************************************************)
Transient(o) == o.exc \in {"Timeout", "ConnectionError"}
Last == hist[Len(hist)]

\* C1: fetch_series makes at most MAX_RETRIES network calls; every call but
\* the last one made ended in a timeout or a connection failure; one sleep
\* separates two consecutive calls and none follows the last call; after
\* MAX_RETRIES transient failures in a row it has returned an empty series.
C1_RetryPolicy ==
    /\ Len(hist) <= MAX_RETRIES
    /\ \A i \in 1..(Len(hist) - 1) : Transient(hist[i])
    /\ pc = "try" => sleeps = Len(hist) /\ Len(hist) < MAX_RETRIES
    /\ pc = "sleep" => /\ sleeps = Len(hist) - 1
                       /\ Len(hist) < MAX_RETRIES
                       /\ Transient(Last)
    /\ pc \in {"returned", "raised"} => sleeps = Len(hist) - 1
    /\ (Len(hist) = MAX_RETRIES /\ Transient(Last)) => pc = "returned" /\ result = <<>>

C1_Witness ==
    /\ pc = "returned"
    /\ Len(hist) = MAX_RETRIES
    /\ \A i \in 1..Len(hist) : Transient(hist[i])
    /\ sleeps = MAX_RETRIES - 1
    /\ result = <<>>

\* A response that fails a validation check: it is not an object, has no
\* status, a status other than REQUEST_SUCCEEDED, no Results, no series
\* entry, or a first entry without a data array.
FailsValidation(p) ==
    \/ p.top # "object"
    \/ p.status # "REQUEST_SUCCEEDED"
    \/ p.results # "object"
    \/ p.series # "list"
    \/ p.entry # "object"
    \/ p.data # "list"
\* A datum that cannot be turned into a record.
Unparseable(item) ==
    \/ item.value = Absent
    \/ /\ item.value \notin {"-", ""}
       /\ (item.value # "100" \/ item.period \notin { <<"M", "0", "1">>, <<"M", "0", "2">> })
HardFailure(o) ==
    \/ o.exc = "HTTPError"
    \/ o.exc = "ValueError"
    \/ /\ o.exc = "none"
       /\ \/ FailsValidation(o.payload)
          \/ \E i \in 1..Len(o.payload.items) : Unparseable(o.payload.items[i])

\* C2: an attempt that ends in an HTTP-status error, a failed validation
\* check or a payload parsing error is the last one: fetch_series has
\* returned an empty series, and made no call and no sleep after it.
C2_HardFailureReturnsEmpty ==
    \A i \in 1..Len(hist) :
        HardFailure(hist[i]) =>
            /\ i = Len(hist)
            /\ pc = "returned"
            /\ result = <<>>
            /\ sleeps = i - 1

C2_Witness ==
    /\ Len(hist) = 2
    /\ hist[2].exc = "none"
    /\ hist[2].payload.top = "object"
    /\ hist[2].payload.status = "REQUEST_SUCCEEDED"
    /\ hist[2].payload.results = Absent
    /\ pc = "returned"
    /\ result = <<>>
    /\ sleeps = 1

\* C3: whatever each attempt ends in, no exception leaves fetch_series.
C3_NoExceptionEscapes == pc # "raised"

NonSentinel(items) == SelectSeq(items, LAMBDA item : item.value \notin {"-", ""})
DateOf(item) == 2010 * 12 + (IF item.period = <<"M", "0", "1">> THEN 1 ELSE 2)
SameRecords(s, items) ==
    /\ Len(s) = Len(items)
    /\ \A d \in { DateOf(items[i]) : i \in 1..Len(items) } :
          Cardinality({ i \in 1..Len(s) : s[i].date = d }) =
          Cardinality({ i \in 1..Len(items) : DateOf(items[i]) = d })
    /\ \A i \in 1..Len(s) : s[i].value = 100
Ascending(s) == \A i \in 1..(Len(s) - 1) : s[i].date <= s[i + 1].date
\* fetch_series has returned from an attempt whose response passed validation.
ReturnedValidated ==
    /\ pc = "returned" /\ Len(hist) > 0
    /\ Last.exc = "none" /\ ~FailsValidation(Last.payload)

SafeName(s) ==
    /\ Len(s) >= 5
    /\ SubSeq(s, Len(s) - 3, Len(s)) = <<".", "c", "s", "v">>
    /\ \A i \in 1..(Len(s) - 4) : s[i] \in { "a", "b", "c", "s", "v", "x", "7", "_", "-" }

\* C5: validate_filename accepts a name if and only if the whole name is one
\* or more characters of [a-zA-Z0-9_-] followed by ".csv".
C5_AcceptsExactlySafeNames ==
    npc = "returned" => (accepted <=> SafeName(filename))

\* The resolved path p lies strictly inside the resolved directory d.
StrictlyInside(p, d) == Len(p) > Len(d) /\ SubSeq(p, 1, Len(d)) = d

\* C6: validate_path_within_directory rejects every path whose resolved
\* location is not strictly inside the resolved allowed directory.
C6_RejectsOutsidePaths ==
    (ppc = "returned" /\ ~StrictlyInside(Resolve(filepath), Resolve(allowed_dir)))
        => ~path_ok

\* C7: load_series_data never raises; when it returns every row has been
\* processed and the mapping holds exactly the names whose file loaded.
C7_BadEntriesAreSkipped ==
    /\ lpc # "raised"
    /\ lpc = "returned" =>
          /\ row = Len(rows) + 1
          /\ dfs = { rows[i] : i \in { j \in 1..Len(rows) :
                        rows[j] \in DOMAIN files /\ files[rows[j]] = "ok" } }

(***************************************************************************)
(*       Claims about the build run and build_severity_index               *)
(***************************************************************************)
\* C8: whenever the composite is computed every panel column has a value at
\* the base date; a run whose panel lacks the base date, or has a column
\* with no value there, ends with a non-zero exit and no composite.
C8_BaseValueOrFailure ==
    /\ bpc = "saved" =>
          \A c \in DOMAIN panel : BaseDate \in DOMAIN panel[c] /\ ~panel[c][BaseDate].nan
    /\ (bpc \in {"saved", "exited"} /\ DOMAIN loaded # {}
          /\ \E c \in DOMAIN loaded : BaseDate \notin DOMAIN loaded[c])
       => (bpc = "exited" /\ exit_code # 0)

\* The rows of w whose series is a column of the panel.
Applied(w) == SelectSeq(w, LAMBDA r : r.series_file \in DOMAIN panel)
RECURSIVE SumWeights(_)
SumWeights(w) == IF w = <<>> THEN Rat(0, 1) ELSE Add(SumWeights(Tail(w)), Head(w).weight)
RECURSIVE SumTerms(_, _)
SumTerms(w, d) ==
    IF w = <<>> THEN Rat(0, 1)
    ELSE Add(SumTerms(Tail(w), d), Mul(Head(w).weight, panel[Head(w).series_file][d]))
LessEq(a, b) == ~a.nan /\ ~b.nan /\ a.n * b.d <= b.n * a.d
\* v lies between the least and the greatest value the referenced columns
\* have at date d.
Bounded(v, w, d) ==
    /\ \E i \in 1..Len(w) : LessEq(panel[w[i].series_file][d], v)
    /\ \E i \in 1..Len(w) : LessEq(v, panel[w[i].series_file][d])
AllColumnsExist == \A i \in 1..Len(weights) : weights[i].series_file \in DOMAIN panel
SumsToOne == SumWeights(weights) = Rat(1, 1)

\* C9 as stated: for weights that sum to exactly 1.0 over existing columns
\* the composite lies between the referenced columns' minimum and maximum
\* at every date.
C9_BoundedByColumns ==
    (ipc = "returned" /\ AllColumnsExist /\ SumsToOne) =>
        \A d \in DOMAIN severity_idx : Bounded(severity_idx[d], weights, d)

\* C9 as amended: for non-negative weights that sum to exactly 1.0 over
\* existing columns, the composite lies between the referenced columns'
\* minimum and maximum at every date at which each referenced column has a
\* value.
C9_ConvexCombinationBounded ==
    (/\ ipc = "returned" /\ AllColumnsExist /\ SumsToOne
     /\ \A i \in 1..Len(weights) : weights[i].weight.n >= 0) =>
        \A d \in DOMAIN severity_idx :
            (\A i \in 1..Len(weights) : ~panel[weights[i].series_file][d].nan)
                => Bounded(severity_idx[d], weights, d)

C9_Witness ==
    /\ ipc = "returned" /\ AllColumnsExist /\ SumsToOne
    /\ Len(weights) = 2
    /\ weights[1].series_file # weights[2].series_file
    /\ weights[1].weight.n > 0 /\ weights[2].weight.n > 0
    /\ \E d \in DOMAIN severity_idx :
          /\ panel[ColA][d] = Rat(100, 1) /\ panel[ColB][d] = Rat(110, 1)
          /\ severity_idx[d] = Rat(105, 1)

Less(a, b) == ~a.nan /\ ~b.nan /\ a.n * b.d < b.n * a.d
\* The rows of w whose series is no column of the panel.
NotApplied(w) == SelectSeq(w, LAMBDA r : r.series_file \notin DOMAIN panel)
\* The parts of C10 about the composite, the cumulative weight and the
\* warning.
SumsAppliedRows ==
    /\ DOMAIN severity_idx = IndexOf(panel)
    /\ \A d \in DOMAIN severity_idx : severity_idx[d] = SumTerms(Applied(weights), d)
    /\ total_weight = SumWeights(Applied(weights))
    /\ warned <=>
          LET diff == Sub(total_weight, Rat(1, 1))
          IN  diff.n * 100 > diff.d \/ (-diff.n) * 100 > diff.d

\* C10 as stated: the composite is, at every date, the sum of weight times
\* column value over exactly the rows whose series is a panel column; the
\* cumulative weight is the sum of those rows' weights, and is less than the
\* nominal total when an absent row has a positive weight; the warning is
\* logged exactly when the cumulative weight is more than 0.01 away from 1.
C10_AbsentPositiveRowLowersTotal ==
    ipc = "returned" =>
        /\ SumsAppliedRows
        /\ (\E i \in 1..Len(weights) :
               weights[i].series_file \notin DOMAIN panel /\ weights[i].weight.n > 0)
           => Less(total_weight, SumWeights(weights))

\* C10 as amended: as stated, but the cumulative weight is less than the
\* nominal total when the weights of the absent rows sum to a positive
\* amount.
C10_SumOverPresentColumns ==
    ipc = "returned" =>
        /\ SumsAppliedRows
        /\ Less(Rat(0, 1), SumWeights(NotApplied(weights)))
           => Less(total_weight, SumWeights(weights))

C10_Witness ==
    /\ ipc = "returned"
    /\ Len(weights) = 2
    /\ weights[1].series_file \notin DOMAIN panel /\ weights[1].weight = Rat(1, 2)
    /\ weights[2].series_file = "Shelter.csv" /\ weights[2].weight = Rat(1, 2)
    /\ total_weight = Rat(1, 2)
    /\ warned
    /\ \E d \in DOMAIN severity_idx : severity_idx[d] = Rat(55, 1)

\* The dates at which some loaded series has an observation.
LoadedDates == UNION { DOMAIN loaded[c] : c \in DOMAIN loaded }
\* Series c has no observation at date d.
Unobserved(c, d) == d \notin DOMAIN loaded[c]
\* The columns some row of the weights file applies.
AppliedColumns == { weights[i].series_file : i \in 1..Len(weights) } \cap DOMAIN loaded

\* C11: the panel's dates are the union of the loaded series' dates; where a
\* series has no observation its panel cell has no value (and is not zero),
\* where it has one the cell holds it; the normalized cell of a missing
\* observation has no value either; and the composite has no value at every
\* date at which the column of some applied weight row has no value.
C11_MissingIsNeverZero ==
    /\ bpc \in {"combined", "normalized", "saved"} =>
          /\ \A c \in DOMAIN panel : DOMAIN panel[c] = LoadedDates
          /\ DOMAIN panel = DOMAIN loaded
          /\ \A c \in DOMAIN loaded : \A d \in LoadedDates :
                IF Unobserved(c, d)
                THEN panel[c][d].nan /\ panel[c][d] # Rat(0, 1)
                ELSE panel[c][d] = loaded[c][d]
    /\ bpc \in {"normalized", "saved"} =>
          /\ \A c \in DOMAIN panel_indexed : DOMAIN panel_indexed[c] = LoadedDates
          /\ \A c \in DOMAIN loaded : \A d \in LoadedDates :
                Unobserved(c, d) =>
                    panel_indexed[c][d].nan /\ panel_indexed[c][d] # Rat(0, 1)
    /\ bpc = "saved" =>
          /\ DOMAIN severity_idx = LoadedDates
          /\ \A d \in LoadedDates :
                (\E c \in AppliedColumns : Unobserved(c, d) \/ panel_indexed[c][d].nan)
                    => severity_idx[d].nan

C11_Witness ==
    /\ bpc = "saved"
    /\ DOMAIN loaded = {"All_Items.csv", "Shelter.csv"}
    /\ DOMAIN loaded["All_Items.csv"] = {BaseDate, BaseDate + 1}
    /\ DOMAIN loaded["Shelter.csv"] = {BaseDate}
    /\ AppliedColumns = {"All_Items.csv", "Shelter.csv"}
    /\ panel["Shelter.csv"][BaseDate + 1].nan
    /\ panel_indexed["Shelter.csv"][BaseDate + 1].nan
    /\ ~panel_indexed["All_Items.csv"][BaseDate + 1].nan
    /\ ~severity_idx[BaseDate].nan
    /\ severity_idx[BaseDate + 1].nan

====
